---------------------------- MODULE Spec2Model ----------------------------
(***************************************************************************)
(* The drawing store of backend/main.py: five request handlers over one    *)
(* SQLite table, `drawings`, keyed by id.                                  *)
(*                                                                         *)
(* Every handler opens its own connection.  create, list, get and delete   *)
(* touch the table in one statement (one transaction), so each is one      *)
(* action.  update_drawing reads the table twice: the existence SELECT of  *)
(* line 185 runs in autocommit mode, and the UPDATE / SELECT / commit of   *)
(* lines 215-229 is a later transaction, so requests served by other       *)
(* worker processes can commit in between; it is two actions, UpdateCheck *)
(* and UpdateWrite.  A worker process runs one handler at a time (the      *)
(* handlers are coroutines that never await), so as many Updates can be    *)
(* between their check and their write as there are worker processes.      *)
(*                                                                         *)
(* Two things are taken from the platform as given: datetime.now() never   *)
(* reads earlier than it has read before (successive readings may be       *)
(* equal), and uuid4 never draws a value twice.                            *)
(*                                                                         *)
(* Text is modelled as text: a timestamp is the character string           *)
(* isoformat() builds and ORDER BY compares it as SQLite compares TEXT;    *)
(* canvas_state is stored as the token string json.dumps builds and read   *)
(* back with json.loads.                                                   *)
(***************************************************************************)
EXTENDS Integers, Sequences, FiniteSets, TLC

\* Number of Create requests served (one uuid each).
MaxIds == 2
\* Largest reading of the wall clock, in half seconds.
MaxClock == 1

\* Number of requests the clients send.
MaxRequests == 4

\* The worker processes that serve the application.
Workers == {"w1", "w2"}

VARIABLES
    served,     \* number of requests taken so far
    db,         \* the drawings table: id -> row
    clock,      \* the latest reading of datetime.now()
    nextId,     \* number of uuids drawn so far, plus one
    pending,    \* the Updates past line 213 and before line 215, one worker each
    last,       \* the handler step just taken and its response
    createdAs,  \* id -> the record Create returned, until the row is written again
    scenario,   \* how far the run is along "N Creates, Update the oldest, List"
    raced       \* right after the commit of an Update: id -> that Update, the one
                \* committed just before it when the two were in flight together,
                \* and the Updates of the id still in flight

vars == <<served, db, clock, nextId, pending, last, createdAs, scenario, raced>>

-----------------------------------------------------------------------------
(* Optional[T]: None is <<>>, a value v is <<v>>. *)

None == <<>>

Some(v) == <<v>>

-----------------------------------------------------------------------------
(* JSON documents, as the dict / list / str / int / None values Python     *)
(* holds.  An object is the sequence of its (key, value) pairs in          *)
(* insertion order.                                                        *)

JNull == <<"null">>

JNum(n) == <<"num", n>>

JStr(s) == <<"str", s>>

JArr(elems) == <<"arr", elems>>

JObj(members) == <<"obj", members>>

\* Tokens of JSON text.
Punct(c) == <<"p", c>>

RECURSIVE json_dumps(_)
RECURSIVE DumpElems(_, _)
RECURSIVE DumpMembers(_, _)

\* The elements of a list from the i-th on, comma separated.
DumpElems(elems, i) ==
    IF i > Len(elems) THEN <<>>
    ELSE (IF i > 1 THEN <<Punct(",")>> ELSE <<>>)
         \o json_dumps(elems[i]) \o DumpElems(elems, i + 1)

\* The members of a dict from the i-th on, comma separated.
DumpMembers(members, i) ==
    IF i > Len(members) THEN <<>>
    ELSE (IF i > 1 THEN <<Punct(",")>> ELSE <<>>)
         \o <<<<"s", members[i][1]>>, Punct(":")>>
         \o json_dumps(members[i][2]) \o DumpMembers(members, i + 1)

json_dumps(v) ==
    CASE v[1] = "null" -> <<<<"l", "null">>>>
      [] v[1] = "num"  -> <<<<"n", v[2]>>>>
      [] v[1] = "str"  -> <<<<"s", v[2]>>>>
      [] v[1] = "arr"  -> <<Punct("[")>> \o DumpElems(v[2], 1) \o <<Punct("]")>>
      [] v[1] = "obj"  -> <<Punct("{")>> \o DumpMembers(v[2], 1) \o <<Punct("}")>>

RECURSIVE ParseValue(_, _)
RECURSIVE ParseElems(_, _, _)
RECURSIVE ParseMembers(_, _, _)

\* The value that starts at token i, and the index of the token after it.
ParseValue(ts, i) ==
    LET t == ts[i] IN
    CASE t[1] = "l" -> <<JNull, i + 1>>
      [] t[1] = "n" -> <<JNum(t[2]), i + 1>>
      [] t[1] = "s" -> <<JStr(t[2]), i + 1>>
      [] t = Punct("[") ->
            IF ts[i + 1] = Punct("]") THEN <<JArr(<<>>), i + 2>>
            ELSE ParseElems(ts, i + 1, <<>>)
      [] t = Punct("{") ->
            IF ts[i + 1] = Punct("}") THEN <<JObj(<<>>), i + 2>>
            ELSE ParseMembers(ts, i + 1, <<>>)

ParseElems(ts, i, acc) ==
    LET r == ParseValue(ts, i)
        acc2 == Append(acc, r[1])
    IN  IF ts[r[2]] = Punct(",") THEN ParseElems(ts, r[2] + 1, acc2)
        ELSE <<JArr(acc2), r[2] + 1>>

ParseMembers(ts, i, acc) ==
    LET key == ts[i][2]
        r == ParseValue(ts, i + 2)
        acc2 == Append(acc, <<key, r[1]>>)
    IN  IF ts[r[2]] = Punct(",") THEN ParseMembers(ts, r[2] + 1, acc2)
        ELSE <<JObj(acc2), r[2] + 1>>

json_loads(text) == ParseValue(text, 1)[1]

-----------------------------------------------------------------------------
(* Timestamps.  The clock counts half seconds.  isoformat() writes the     *)
(* seconds in a fixed width and leaves the fraction out when it is zero;   *)
(* characters are their ASCII codes ("." is 46, "0" is 48).                *)

isoformat(t) ==
    LET sec == t \div 2
        whole == <<48 + (sec \div 10), 48 + (sec % 10)>>
    IN  IF t % 2 = 0 THEN whole ELSE whole \o <<46, 53>>

\* a <= b as SQLite orders TEXT: bytewise, a proper prefix first.
TextLeq(a, b) ==
    \E k \in 0..Len(a) :
        /\ k <= Len(b)
        /\ \A j \in 1..k : a[j] = b[j]
        /\ \/ k = Len(a)
           \/ k < Len(b) /\ a[k + 1] < b[k + 1]

-----------------------------------------------------------------------------
(* Requests. *)

EmptyDoc == JObj(<<>>)

ShapesDoc ==
    JObj(<< <<"shapes", JArr(<< JObj(<< <<"type", JStr("circle")>>, <<"r", JNum(5)>> >>),
                                JArr(<< JNum(0), JNull >>) >>)>>,
            <<"v", JObj(<<>>)>> >>)

\* Mutant: one uuid, drawn when the module is loaded, serves every Create.
Uuid_fixed(n) == <<1>>

\* uuid4 as text: the n-th uuid drawn.
Uuid(n) == <<n>>

ReqIds == {Uuid(n) : n \in 1..MaxIds}

\* DrawingCreate: three required fields.
DrawingCreate(name, preview_image, canvas_state) ==
    [name |-> name, preview_image |-> preview_image, canvas_state |-> canvas_state]

\* DrawingUpdate: three optional fields, None by default.
DrawingUpdate(name, preview_image, canvas_state) ==
    [name |-> name, preview_image |-> preview_image, canvas_state |-> canvas_state]

\* The request bodies the clients send.
CreateRequests ==
    {DrawingCreate("X", "img", ShapesDoc),
     DrawingCreate("", "", EmptyDoc)}

UpdateRequests ==
    {DrawingUpdate(None, None, None),
     DrawingUpdate(Some("X"), None, None),
     DrawingUpdate(Some(""), None, None),
     DrawingUpdate(None, Some(""), None),
     DrawingUpdate(None, None, Some(EmptyDoc)),
     DrawingUpdate(Some("X"), Some("img"), Some(ShapesDoc))}

\* Mutant: the columns of the fetched row are picked with a slipped index.
DrawingResponse_slipped(row) ==
    [id |-> row.id,
     name |-> row.preview_image,
     preview_image |-> row.name,
     canvas_state |-> json_loads(row.canvas_state),
     created_at |-> row.created_at,
     updated_at |-> row.updated_at]

\* DrawingResponse built from a fetched row.
DrawingResponse(row) ==
    [id |-> row.id,
     name |-> row.name,
     preview_image |-> row.preview_image,
     canvas_state |-> json_loads(row.canvas_state),
     created_at |-> row.created_at,
     updated_at |-> row.updated_at]

\* What a handler step leaves behind: the request (its operation, its id and
\* whether its body had no field) and the response (status and records).
\* status 0: the request is still being served.
Event(op, id, nofields, status, body) ==
    [op |-> op, id |-> id, nofields |-> nofields, status |-> status, body |-> body]

\* The request body names no field.
EmptyBody(drawing) == drawing = DrawingUpdate(None, None, None)

\* A worker process that is not inside a handler takes the next request.
Accept ==
    /\ Cardinality(pending) < Cardinality(Workers)
    /\ served < MaxRequests
    /\ served' = served + 1

-----------------------------------------------------------------------------
(* The drawings table and the statements the handlers run on it. *)

\* cursor.fetchone() after SELECT ... WHERE id = ?
SelectById(table, id) == IF id \in DOMAIN table THEN Some(table[id]) ELSE None

\* Mutant: updated_at is left to the column default, CURRENT_TIMESTAMP, which
\* is UTC and here behind the local time of datetime.now().
InsertRow_default(drawing_id, drawing, current_time) ==
    [id |-> drawing_id,
     name |-> drawing.name,
     preview_image |-> drawing.preview_image,
     canvas_state |-> json_dumps(drawing.canvas_state),
     created_at |-> current_time,
     updated_at |-> isoformat(0)]

\* Mutant: the values tuple gives preview_image and name in the other order.
InsertRow_swapped(drawing_id, drawing, current_time) ==
    [id |-> drawing_id,
     name |-> drawing.preview_image,
     preview_image |-> drawing.name,
     canvas_state |-> json_dumps(drawing.canvas_state),
     created_at |-> current_time,
     updated_at |-> current_time]

\* INSERT INTO drawings (...) VALUES (?, ?, ?, ?, ?, ?)
InsertRow(drawing_id, drawing, current_time) ==
    [id |-> drawing_id,
     name |-> drawing.name,
     preview_image |-> drawing.preview_image,
     canvas_state |-> json_dumps(drawing.canvas_state),
     created_at |-> current_time,
     updated_at |-> current_time]

SqlInsert(table, row) ==
    [i \in DOMAIN table \cup {row.id} |-> IF i = row.id THEN row ELSE table[i]]

\* The record create_drawing returns: built from the request, not re-read.
CreateResponse(drawing_id, drawing, current_time) ==
    [id |-> drawing_id,
     name |-> drawing.name,
     preview_image |-> drawing.preview_image,
     canvas_state |-> drawing.canvas_state,
     created_at |-> current_time,
     updated_at |-> current_time]

\* Mutant: "if drawing.name:" in place of "if drawing.name is not None", so
\* that an empty value counts as a missing one.
UpdateFields_truthy(drawing) ==
    [name |-> IF drawing.name # None /\ drawing.name # Some("")
                 THEN drawing.name ELSE None,
     preview_image |-> IF drawing.preview_image # None /\ drawing.preview_image # Some("")
                          THEN drawing.preview_image ELSE None,
     canvas_state |-> IF drawing.canvas_state # None /\ drawing.canvas_state # Some(EmptyDoc)
                         THEN Some(json_dumps(drawing.canvas_state[1]))
                         ELSE None]

\* update_fields / update_values: one entry for each field that is not None.
UpdateFields(drawing) ==
    [name |-> drawing.name,
     preview_image |-> drawing.preview_image,
     canvas_state |-> IF drawing.canvas_state # None
                         THEN Some(json_dumps(drawing.canvas_state[1]))
                         ELSE None]

\* Mutant: the empty SET clause is not rejected.
NoFields_never(fields) == FALSE

\* not update_fields
NoFields(fields) ==
    fields.name = None /\ fields.preview_image = None /\ fields.canvas_state = None

\* Mutant: the SET clause without "updated_at = ?".
SetFields_nostamp(row, fields, current_time) ==
    [id |-> row.id,
     name |-> IF fields.name # None THEN fields.name[1] ELSE row.name,
     preview_image |-> IF fields.preview_image # None THEN fields.preview_image[1]
                                                      ELSE row.preview_image,
     canvas_state |-> IF fields.canvas_state # None THEN fields.canvas_state[1]
                                                    ELSE row.canvas_state,
     created_at |-> row.created_at,
     updated_at |-> row.updated_at]

\* Mutant: one UPDATE and commit for each field, of which the name's is the
\* first; the row as it is between the first commit and the second.
SetFields_oneByOne(row, fields, current_time) ==
    [id |-> row.id,
     name |-> IF fields.name # None THEN fields.name[1] ELSE row.name,
     preview_image |-> IF fields.preview_image # None /\ fields.name = None
                          THEN fields.preview_image[1] ELSE row.preview_image,
     canvas_state |-> IF fields.canvas_state # None /\ fields.name = None
                         THEN fields.canvas_state[1] ELSE row.canvas_state,
     created_at |-> row.created_at,
     updated_at |-> current_time]

\* Mutant: a fixed SET clause that writes all three columns, a missing field
\* as the empty value.
SetFields_all(row, fields, current_time) ==
    [id |-> row.id,
     name |-> IF fields.name # None THEN fields.name[1] ELSE "",
     preview_image |-> IF fields.preview_image # None THEN fields.preview_image[1] ELSE "",
     canvas_state |-> IF fields.canvas_state # None THEN fields.canvas_state[1]
                                                    ELSE json_dumps(EmptyDoc),
     created_at |-> row.created_at,
     updated_at |-> current_time]

\* UPDATE drawings SET <fields>, updated_at = ? WHERE id = ?, on the row it matches.
SetFields(row, fields, current_time) ==
    [id |-> row.id,
     name |-> IF fields.name # None THEN fields.name[1] ELSE row.name,
     preview_image |-> IF fields.preview_image # None THEN fields.preview_image[1]
                                                      ELSE row.preview_image,
     canvas_state |-> IF fields.canvas_state # None THEN fields.canvas_state[1]
                                                    ELSE row.canvas_state,
     created_at |-> row.created_at,
     updated_at |-> current_time]

\* Mutant: INSERT OR REPLACE in place of UPDATE, which writes a row for an id
\* that has none.
SqlUpdate_upsert(table, id, fields, current_time) ==
    [i \in DOMAIN table \cup {id} |->
        IF i # id THEN table[i]
        ELSE IF id \in DOMAIN table THEN SetFields(table[i], fields, current_time)
        ELSE SetFields_all([id |-> id, created_at |-> current_time], fields, current_time)]

\* Mutant: "WHERE id = ? AND updated_at <= ?", which lets a row keep what an
\* Update with a later time has written.
SqlUpdate_ifNewer(table, id, fields, current_time) ==
    [i \in DOMAIN table |->
        IF i = id /\ TextLeq(table[i].updated_at, current_time)
          THEN SetFields(table[i], fields, current_time)
          ELSE table[i]]

\* Mutant: the UPDATE without "WHERE id = ?", which writes every row when the
\* id has one.
SqlUpdate_noWhere(table, id, fields, current_time) ==
    [i \in DOMAIN table |->
        IF id \in DOMAIN table THEN SetFields(table[i], fields, current_time)
                               ELSE table[i]]

\* The UPDATE statement: rows with another id, and a missing id, are left alone.
SqlUpdate(table, id, fields, current_time) ==
    [i \in DOMAIN table |->
        IF i = id THEN SetFields(table[i], fields, current_time) ELSE table[i]]

\* DELETE FROM drawings WHERE id = ?
SqlDelete(table, id) == [i \in DOMAIN table \ {id} |-> table[i]]

\* Mutant: ORDER BY updated_at, without DESC.
OrderedDesc_asc(rows) ==
    \A j \in 1..(Len(rows) - 1) : TextLeq(rows[j].updated_at, rows[j + 1].updated_at)

\* ORDER BY updated_at DESC: SQLite states no order among equal keys.
OrderedDesc(rows) ==
    \A j \in 1..(Len(rows) - 1) : TextLeq(rows[j + 1].updated_at, rows[j].updated_at)

\* Every order in which SELECT ... FROM drawings ORDER BY updated_at DESC can
\* return the rows of the table.
SelectAll(table) ==
    LET n == Cardinality(DOMAIN table)
        orders == {o \in [1..n -> DOMAIN table] : \A a, b \in 1..n : o[a] = o[b] => a = b}
    IN  {rows \in {[j \in 1..n |-> table[o[j]]] : o \in orders} : OrderedDesc(rows)}

-----------------------------------------------------------------------------
(* The run along "N >= 2 Creates, then an Update of the record created     *)
(* first, then List", with no other request in between.                    *)

AfterCreate(s) == IF s = "creates" THEN "creates" ELSE "off"

AfterUpdateCheck(s, id, created) ==
    IF s = "creates" /\ created >= 2 /\ id = Uuid(1) THEN "begun" ELSE "off"

AfterUpdateWrite(s, status) == IF s = "begun" /\ status = 200 THEN "updated" ELSE "off"

AfterList(s) == IF s = "updated" THEN "listed" ELSE "off"

\* What raced keeps, for the one state that follows the commit of an Update
\* of an id that answered 200: last is that Update, open the Updates of the
\* id that were past their existence check at that commit, and first the
\* Update committed by the step before, when that was on the same id and last
\* was among those past their check at its commit.  There is no entry when
\* there is nothing to keep, and none after any other step.
NoRace == [first |-> None, last |-> None, open |-> {}]

RaceOf(r, id) == IF id \in DOMAIN r THEN r[id] ELSE NoRace

AfterCommit(r, pend, v) ==
    LET old == RaceOf(r, v.id)
        first == IF v \in old.open THEN old.last ELSE None
        open == {w \in pend \ {v} : w.id = v.id}
    IN  IF first = None /\ open = {}
          THEN <<>>
          ELSE [i \in {v.id} |-> [first |-> first, last |-> Some(v), open |-> open]]

-----------------------------------------------------------------------------
Init ==
    /\ served = 0
    /\ db = <<>>
    /\ clock = 0
    /\ nextId = 1
    /\ pending = {}
    /\ last = Event("start", <<>>, FALSE, 0, <<>>)
    /\ createdAs = <<>>
    /\ raced = <<>>
    /\ scenario = "creates"

-----------------------------------------------------------------------------
(* POST /drawings *)
create_drawing(drawing) ==
    /\ Accept
    /\ nextId <= MaxIds
    /\ \E t \in clock..MaxClock :
        LET drawing_id == Uuid(nextId)
            current_time == isoformat(t)
        IN  /\ clock' = t
            /\ nextId' = nextId + 1
            /\ pending' = pending
            /\ raced' = <<>>
            /\ scenario' = AfterCreate(scenario)
            /\ IF drawing_id \in DOMAIN db
                 THEN \* PRIMARY KEY violation: sqlite3.IntegrityError
                      /\ db' = db
                      /\ createdAs' = createdAs
                      /\ last' = Event("create", drawing_id, FALSE, 500, <<>>)
                 ELSE LET resp == CreateResponse(drawing_id, drawing, current_time) IN
                      /\ db' = SqlInsert(db, InsertRow(drawing_id, drawing, current_time))
                      /\ createdAs' = [i \in DOMAIN createdAs \cup {drawing_id} |->
                                          IF i = drawing_id THEN Some(resp) ELSE createdAs[i]]
                      /\ last' = Event("create", drawing_id, FALSE, 200, <<resp>>)

(* GET /drawings *)
get_drawings ==
    /\ Accept
    /\ \E rows \in SelectAll(db) :
        last' = Event("list", <<>>, FALSE, 200,
                      [j \in 1..Len(rows) |-> DrawingResponse(rows[j])])
    /\ scenario' = AfterList(scenario)
    /\ raced' = <<>>
    /\ UNCHANGED <<db, clock, nextId, pending, createdAs>>

(* GET /drawings/{drawing_id} *)
get_drawing(drawing_id) ==
    /\ Accept
    /\ LET row == SelectById(db, drawing_id) IN
        IF row = None
          THEN last' = Event("get", drawing_id, FALSE, 404, <<>>)
          ELSE last' = Event("get", drawing_id, FALSE, 200, <<DrawingResponse(row[1])>>)
    /\ scenario' = "off"
    /\ raced' = <<>>
    /\ UNCHANGED <<db, clock, nextId, pending, createdAs>>

(* PUT /drawings/{drawing_id}, lines 181-213: the existence check, the SET  *)
(* clause and the timestamp.                                               *)
UpdateCheck(drawing_id, drawing) ==
    LET fields == UpdateFields(drawing) IN
    /\ Accept
    /\ IF SelectById(db, drawing_id) = None
         THEN /\ last' = Event("update", drawing_id, EmptyBody(drawing), 404, <<>>)
              /\ scenario' = "off"
              /\ UNCHANGED <<clock, pending>>
         ELSE IF NoFields(fields)
           THEN /\ last' = Event("update", drawing_id, EmptyBody(drawing), 400, <<>>)
                /\ scenario' = "off"
                /\ UNCHANGED <<clock, pending>>
           ELSE /\ \E t \in clock..MaxClock :
                    /\ clock' = t
                    /\ pending' = pending \cup
                          {[id |-> drawing_id, drawing |-> drawing, fields |-> fields,
                            current_time |-> isoformat(t)]}
                /\ last' = Event("update", drawing_id, EmptyBody(drawing), 0, <<>>)
                /\ scenario' = AfterUpdateCheck(scenario, drawing_id, nextId - 1)
    /\ raced' = <<>>
    /\ UNCHANGED <<db, nextId, createdAs>>

(* Mutant: the response is built from the request, as create_drawing builds *)
(* its own, and the row is not read again after the UPDATE.                 *)
UpdateWrite_noReread(u) ==
    /\ u \in pending
    /\ pending' = pending \ {u}
    /\ db' = SqlUpdate(db, u.id, u.fields, u.current_time)
    /\ last' = Event("update_write", u.id, FALSE, 200,
                     <<[id |-> u.id,
                        name |-> IF u.drawing.name # None THEN u.drawing.name[1] ELSE "",
                        preview_image |-> IF u.drawing.preview_image # None
                                             THEN u.drawing.preview_image[1] ELSE "",
                        canvas_state |-> IF u.drawing.canvas_state # None
                                            THEN u.drawing.canvas_state[1] ELSE EmptyDoc,
                        created_at |-> u.current_time,
                        updated_at |-> u.current_time]>>)
    /\ createdAs' = [i \in DOMAIN createdAs |-> IF i = u.id THEN None ELSE createdAs[i]]
    /\ raced' = AfterCommit(raced, pending, u)
    /\ scenario' = AfterUpdateWrite(scenario, 200)
    /\ UNCHANGED <<served, clock, nextId>>

(* PUT /drawings/{drawing_id}, lines 215-244: UPDATE, re-read, commit and   *)
(* the response.  When the row is gone the UPDATE matches nothing,          *)
(* fetchone() gives None and row[0] raises TypeError: status 500.          *)
UpdateWrite(u) ==
    /\ u \in pending
    /\ pending' = pending \ {u}
    /\ db' = SqlUpdate(db, u.id, u.fields, u.current_time)
    /\ LET row == SelectById(db', u.id) IN
        IF row = None
          THEN /\ last' = Event("update_write", u.id, FALSE, 500, <<>>)
               /\ createdAs' = createdAs
               /\ raced' = <<>>
               /\ scenario' = AfterUpdateWrite(scenario, 500)
          ELSE /\ last' = Event("update_write", u.id, FALSE, 200, <<DrawingResponse(row[1])>>)
               /\ createdAs' = [createdAs EXCEPT ![u.id] = None]
               /\ raced' = AfterCommit(raced, pending, u)
               /\ scenario' = AfterUpdateWrite(scenario, 200)
    /\ UNCHANGED <<served, clock, nextId>>

(* Mutant: DELETE without the look at cursor.rowcount. *)
delete_drawing_norowcount(drawing_id) ==
    /\ Accept
    /\ db' = SqlDelete(db, drawing_id)
    /\ last' = Event("delete", drawing_id, FALSE, 200, <<>>)
    /\ createdAs' = [i \in DOMAIN createdAs |-> IF i = drawing_id THEN None ELSE createdAs[i]]
    /\ raced' = <<>>
    /\ scenario' = "off"
    /\ UNCHANGED <<clock, nextId, pending>>

(* DELETE /drawings/{drawing_id} *)
delete_drawing(drawing_id) ==
    /\ Accept
    /\ db' = SqlDelete(db, drawing_id)
    /\ IF DOMAIN db' = DOMAIN db
         THEN \* cursor.rowcount == 0
              /\ last' = Event("delete", drawing_id, FALSE, 404, <<>>)
              /\ createdAs' = createdAs
         ELSE /\ last' = Event("delete", drawing_id, FALSE, 200, <<>>)
              /\ createdAs' = [createdAs EXCEPT ![drawing_id] = None]
    /\ raced' = <<>>
    /\ scenario' = "off"
    /\ UNCHANGED <<clock, nextId, pending>>

Next ==
    \/ \E drawing \in CreateRequests : create_drawing(drawing)
    \/ get_drawings
    \/ \E id \in ReqIds : get_drawing(id)
    \/ \E id \in ReqIds, drawing \in UpdateRequests : UpdateCheck(id, drawing)
    \/ \E u \in pending : UpdateWrite(u)
    \/ \E id \in ReqIds : delete_drawing(id)

Spec == Init /\ [][Next]_vars

-----------------------------------------------------------------------------
(* Reading the claims off the model. *)

\* The clock reading a timestamp was built from (datetime.fromisoformat).
TimeOf(text) ==
    2 * ((text[1] - 48) * 10 + (text[2] - 48)) + (IF Len(text) > 2 THEN 1 ELSE 0)

\* The step just taken took a new request, which last' describes.
Took(op) == served' # served /\ last'.op = op

\* The ids Create has returned so far.
Created == DOMAIN createdAs

\* C1: a Get of an id that Create returned, made before any Update or Delete
\* of that id has committed, answers 200 with a record equal in all six
\* fields (canvas_state after json.dumps / json.loads) to the record Create
\* returned.
C1_CreateThenGet ==
    (last.op = "get" /\ last.id \in Created /\ createdAs[last.id] # None) =>
        /\ last.status = 200
        /\ Len(last.body) = 1
        /\ LET got == last.body[1]
               made == createdAs[last.id][1]
           IN  /\ got.id = made.id
               /\ got.name = made.name
               /\ got.preview_image = made.preview_image
               /\ got.canvas_state = made.canvas_state
               /\ got.created_at = made.created_at
               /\ got.updated_at = made.updated_at

\* C1 happens: a Get returned a freshly created record that carries the
\* nested document.
C1_Witness ==
    /\ last.op = "get"
    /\ last.status = 200
    /\ createdAs[last.id] # None
    /\ last.body[1].canvas_state = ShapesDoc

\* C2: a successful Update writes exactly the fields of its body and sets
\* updated_at to the time it read; id, created_at and every field its body
\* leaves out keep the values they had just before the write, and the
\* response is the record as stored.
C2_UpdateOverwrites ==
    [][\A u \in pending \ pending' :
          last'.status = 200 =>
            /\ u.id \in DOMAIN db /\ u.id \in DOMAIN db'
            /\ LET old == DrawingResponse(db[u.id])
                   new == DrawingResponse(db'[u.id])
               IN  /\ new.id = old.id
                   /\ new.created_at = old.created_at
                   /\ new.updated_at = u.current_time
                   /\ new.name = IF u.drawing.name # None
                                     THEN u.drawing.name[1] ELSE old.name
                   /\ new.preview_image = IF u.drawing.preview_image # None
                                              THEN u.drawing.preview_image[1]
                                              ELSE old.preview_image
                   /\ new.canvas_state = IF u.drawing.canvas_state # None
                                             THEN u.drawing.canvas_state[1]
                                             ELSE old.canvas_state
                   /\ last'.body = <<new>>]_vars

\* C2 happens: an Update with only a name has changed the name of a record
\* created with empty fields and left the other fields empty.
C2_Witness ==
    /\ last.op = "update_write"
    /\ last.status = 200
    /\ last.body[1].name = "X"
    /\ last.body[1].preview_image = ""
    /\ last.body[1].canvas_state = EmptyDoc
    /\ last.body[1].updated_at # last.body[1].created_at

\* C3: an Update of a stored id whose body has no field answers 400 and
\* leaves the table as it was.
C3_EmptyUpdateRejected ==
    [][(Took("update") /\ last'.nofields /\ last'.id \in DOMAIN db) =>
          /\ last'.status = 400
          /\ db' = db
          /\ pending' = pending]_vars

\* C3 happens: an Update with no field was refused on a stored id.
C3_Witness ==
    /\ last.op = "update"
    /\ last.nofields
    /\ last.status = 400
    /\ last.id \in DOMAIN db

\* C4: Get, Update (whatever its body) and Delete of an id with no stored
\* row answer 404 and leave the table as it was; a Delete of the id a Delete
\* has just removed answers 404.
C4_NotFound ==
    [][/\ (Took("get") \/ Took("update") \/ Took("delete")) /\ last'.id \notin DOMAIN db =>
            /\ last'.status = 404
            /\ db' = db
            /\ pending' = pending
       /\ (Took("delete") /\ last.op = "delete" /\ last.status = 200 /\ last.id = last'.id) =>
            last'.status = 404]_vars

\* C4 happens: the second of two Deletes of one id was answered 404.
C4_Witness ==
    /\ last.op = "delete"
    /\ last.status = 404
    /\ last.id \in Created

\* C5: an id that Create returned and that has no row (its Delete succeeded)
\* never has a row again: no later step stores one, no Get of it answers with
\* a record and no List holds one, an Update in flight included.
C5_DeletedStaysAbsent ==
    [][\A id \in Created :
          id \notin DOMAIN db =>
            /\ id \notin DOMAIN db'
            /\ (Took("get") /\ last'.id = id) => (last'.status = 404 /\ last'.body = <<>>)
            /\ Took("list") => \A j \in 1..Len(last'.body) : last'.body[j].id # id]_vars

\* C5 happens: an Update that was in flight when its id was deleted has done
\* its write and the id still has no row.
C5_Witness ==
    /\ last.op = "update_write"
    /\ last.status = 500
    /\ last.id \in Created
    /\ last.id \notin DOMAIN db

\* C6: List answers 200 with exactly the stored records, each once and as
\* stored, in an order in which the time of updated_at never increases from
\* one element to the next; with no stored record the answer is the empty
\* sequence.
C6_ListAllSorted ==
    last.op = "list" =>
        /\ last.status = 200
        /\ Len(last.body) = Cardinality(DOMAIN db)
        /\ {last.body[j].id : j \in 1..Len(last.body)} = DOMAIN db
        /\ \A j \in 1..Len(last.body) : last.body[j] = DrawingResponse(db[last.body[j].id])
        /\ \A j \in 1..(Len(last.body) - 1) :
              TimeOf(last.body[j + 1].updated_at) <= TimeOf(last.body[j].updated_at)

\* C6 happens: a List returned two records with different times.
C6_Witness ==
    /\ last.op = "list"
    /\ Len(last.body) = 2
    /\ TimeOf(last.body[2].updated_at) < TimeOf(last.body[1].updated_at)

\* C7: created_at equals updated_at right after Create, and no step lowers
\* the updated_at of a stored record.
C7_UpdatedAtNeverDecreases ==
    [][/\ Took("create") /\ last'.status = 200 =>
            db'[last'.id].created_at = db'[last'.id].updated_at
       /\ \A id \in DOMAIN db \cap DOMAIN db' :
            TimeOf(db[id].updated_at) <= TimeOf(db'[id].updated_at)]_vars

\* C8: every stored record has created_at <= updated_at, as times and as the
\* texts stored.
C8_CreatedBeforeUpdated ==
    \A id \in DOMAIN db :
        /\ TimeOf(db[id].created_at) <= TimeOf(db[id].updated_at)
        /\ TextLeq(db[id].created_at, db[id].updated_at)

\* C8 happens: a record was updated after the clock had moved on.
C8_Witness ==
    \E id \in DOMAIN db : TimeOf(db[id].created_at) < TimeOf(db[id].updated_at)

\* C9: a successful Create returns a non-empty id that no earlier Create
\* returned, stores its record under that id and leaves every stored record
\* as it was; every row is stored under its own id.
C9_FreshId ==
    [][/\ \A id \in DOMAIN db' : db'[id].id = id
       /\ Took("create") /\ last'.status = 200 =>
            /\ Len(last'.id) > 0
            /\ last'.id \notin Created
            /\ last'.id \notin DOMAIN db
            /\ last'.body[1].id = last'.id
            /\ DOMAIN db' = DOMAIN db \cup {last'.id}
            /\ \A id \in DOMAIN db : db'[id] = db[id]]_vars

\* C9 happens: two Creates with the same input and the same time have left
\* two records.
C9_Witness ==
    \E a, b \in DOMAIN db :
        /\ a # b
        /\ db[a].name = db[b].name
        /\ db[a].preview_image = db[b].preview_image
        /\ db[a].canvas_state = db[b].canvas_state
        /\ db[a].created_at = db[b].created_at

\* C10, as claimed: after N >= 2 Creates and a successful Update of the record
\* created first, with nothing in between, that record is the first element
\* of the next List.
C10_UpdatedIsFirst ==
    scenario = "listed" => last.body[1].id = Uuid(1)

\* C10, amended: in that List the updated record has the greatest updated_at
\* and comes before every record with a smaller one, so it is the first
\* element when its updated_at is greater than that of every other record.
C10_UpdatedBeforeOlder ==
    scenario = "listed" =>
        \E k \in 1..Len(last.body) :
            /\ last.body[k].id = Uuid(1)
            /\ \A j \in 1..Len(last.body) :
                  /\ TimeOf(last.body[j].updated_at) <= TimeOf(last.body[k].updated_at)
                  /\ TimeOf(last.body[j].updated_at) < TimeOf(last.body[k].updated_at) => k < j
            /\ (\A j \in 1..Len(last.body) :
                    j # k => TimeOf(last.body[j].updated_at) < TimeOf(last.body[k].updated_at))
                  => k = 1

\* C10 happens: the List after the Update starts with the updated record,
\* whose time is later than that of the record created second.
C10_Witness ==
    /\ scenario = "listed"
    /\ Len(last.body) = 2
    /\ last.body[1].id = Uuid(1)
    /\ TimeOf(last.body[2].updated_at) < TimeOf(last.body[1].updated_at)

\* A request body whose fields, those it has, all carry the empty value.
OnlyEmptyValues(drawing) ==
    /\ ~EmptyBody(drawing)
    /\ drawing.name \in {None, Some("")}
    /\ drawing.preview_image \in {None, Some("")}
    /\ drawing.canvas_state \in {None, Some(EmptyDoc)}

\* C11: an Update of a stored id whose body gives a field the empty value is
\* taken like any other (no 400, even when that is its only field), its write
\* succeeds when the row is still there, and it leaves the empty value in
\* that field and the fields it does not name as they were.
C11_EmptyValueIsPresent ==
    [][/\ (Took("update") /\ last'.id \in DOMAIN db /\ ~last'.nofields) =>
            /\ last'.status = 0
            /\ \E u \in pending' : u.id = last'.id
       /\ \A u \in pending \ pending' :
            (OnlyEmptyValues(u.drawing) /\ u.id \in DOMAIN db) =>
                /\ last'.status = 200
                /\ LET old == DrawingResponse(db[u.id])
                       new == DrawingResponse(db'[u.id])
                   IN  /\ new.name = IF u.drawing.name # None THEN "" ELSE old.name
                       /\ new.preview_image =
                             IF u.drawing.preview_image # None THEN "" ELSE old.preview_image
                       /\ new.canvas_state =
                             IF u.drawing.canvas_state # None THEN EmptyDoc
                                                              ELSE old.canvas_state]_vars

\* C11 witness: a record created with the name "X" and a picture has been
\* updated with the name "" alone; it now has the empty name and its
\* picture.
C11_Witness ==
    /\ last.op = "update_write"
    /\ last.status = 200
    /\ last.body[1].name = ""
    /\ last.body[1].preview_image = "img"
    /\ last.body[1].canvas_state = ShapesDoc

\* C12: the name of every stored record is a non-empty string.
C12_NameNonEmpty ==
    \A id \in DOMAIN db : db[id].name # ""

\* The names that the requests give.
RequestNames ==
    {c.name : c \in CreateRequests} \cup
    {d.name[1] : d \in {x \in UpdateRequests : x.name # None}}

\* C12 (amended): the name of every stored record is a string that a request
\* gave, empty or not: a new row has the name of the Create that made it, and
\* a row's name changes only at the write of an Update that names one, to
\* that name.
C12_NameAsGiven ==
    [][\A id \in DOMAIN db' :
            /\ db'[id].name \in RequestNames
            /\ id \notin DOMAIN db =>
                    /\ Took("create")
                    /\ last'.status = 200
                    /\ db'[id].name = last'.body[1].name
            /\ (id \in DOMAIN db /\ db'[id].name # db[id].name) =>
                    \E u \in pending \ pending' :
                        u.id = id /\ u.drawing.name = Some(db'[id].name)]_vars

\* C12 witness: a row that Create stored with the empty name.
C12_Witness ==
    /\ last.op = "create"
    /\ last.status = 200
    /\ last.id \in DOMAIN db
    /\ db[last.id].name = ""
    /\ last.body[1].name = ""

\* The texts that json.dumps gives of the documents the requests carry.
StoredDocs == {json_dumps(EmptyDoc), json_dumps(ShapesDoc)}

\* The columns of the table drawings.
Columns == {"id", "name", "preview_image", "canvas_state", "created_at", "updated_at"}

\* The row after the whole of the Update u: each field of its body and its
\* time.
WholeUpdate(row, u) ==
    [id |-> row.id,
     name |-> IF u.drawing.name # None THEN u.drawing.name[1] ELSE row.name,
     preview_image |-> IF u.drawing.preview_image # None
                          THEN u.drawing.preview_image[1] ELSE row.preview_image,
     canvas_state |-> IF u.drawing.canvas_state # None
                         THEN json_dumps(u.drawing.canvas_state[1]) ELSE row.canvas_state,
     created_at |-> row.created_at,
     updated_at |-> u.current_time]

\* C13: a stored row changes only in one step from the row before an Update
\* to the row after the whole of it, fields and updated_at together; every
\* record a Get or a List returns is one of the rows stored at that moment;
\* and every stored row has a value in each of its six columns.
C13_UpdateAtomic ==
    [][/\ \A id \in DOMAIN db \cap DOMAIN db' :
            \/ db'[id] = db[id]
            \/ \E u \in pending \ pending' :
                    u.id = id /\ db'[id] = WholeUpdate(db[id], u)
       /\ (Took("get") /\ last'.status = 200) =>
            /\ db' = db
            /\ last'.id \in DOMAIN db
            /\ last'.body = <<DrawingResponse(db[last'.id])>>
       /\ Took("list") =>
            /\ db' = db
            /\ \A k \in DOMAIN last'.body :
                    /\ last'.body[k].id \in DOMAIN db
                    /\ last'.body[k] = DrawingResponse(db[last'.body[k].id])
       /\ \A id \in DOMAIN db' :
            /\ DOMAIN db'[id] = Columns
            /\ db'[id].id = id
            /\ db'[id].name \in RequestNames
            /\ db'[id].preview_image \in {"", "img"}
            /\ db'[id].canvas_state \in StoredDocs
            /\ \E t \in 0..MaxClock : db'[id].created_at = isoformat(t)
            /\ \E t \in 0..MaxClock : db'[id].updated_at = isoformat(t)]_vars

\* C13 witness: between the commits of two Updates of one record that were
\* in flight together, a Get returns the record with all three fields and
\* the time of the first and nothing of the second.
C13_Witness ==
    /\ last.op = "get"
    /\ last.status = 200
    /\ last.body[1].name = "X"
    /\ last.body[1].preview_image = "img"
    /\ last.body[1].canvas_state = ShapesDoc
    /\ last.body[1].updated_at # last.body[1].created_at
    /\ createdAs[last.id] = None
    /\ \E u \in pending : u.id = last.id /\ u.drawing.name = Some("")

\* The fields a request body can carry.
PatchFields == {"name", "preview_image", "canvas_state"}

\* The ids on which the step just taken committed an Update that answered
\* 200 and the step before it another, that answered 200 too, the two having
\* been in flight together (each past its existence check before the other's
\* write).
RacedIds == {id \in DOMAIN raced \cap DOMAIN db : raced[id].first # None}

\* C14: when two Updates of one id that were in flight together have both
\* succeeded, one commit right after the other, the row has, in every field
\* that both bodies carry, the value of the one that committed last, and its
\* updated_at is the time that one read.
C14_LastCommitWins ==
    \A id \in RacedIds :
        LET a == raced[id].first[1]
            b == raced[id].last[1]
            rec == DrawingResponse(db[id])
        IN  /\ rec.updated_at = b.current_time
            /\ \A f \in PatchFields :
                    (a.drawing[f] # None /\ b.drawing[f] # None) =>
                        rec[f] = b.drawing[f][1]

\* C14 witness: two Updates of one record, each with a name, were in flight
\* together; the one that read the later time committed first, and the
\* record has the name and the time of the other.
C14_Witness ==
    \E id \in RacedIds :
        LET a == raced[id].first[1]
            b == raced[id].last[1]
        IN  /\ a.drawing.name # None
            /\ b.drawing.name # None
            /\ a.drawing.name # b.drawing.name
            /\ TimeOf(b.current_time) < TimeOf(a.current_time)
            /\ db[id].name = b.drawing.name[1]
            /\ db[id].updated_at = b.current_time

\* C15: an Update answers 200 only when, at its commit, its id has a row and
\* the record it returns is that row; an Update whose id was deleted after
\* its existence check writes nothing, answers 500 and not 200, and the id
\* still has no row.
C15_SuccessOnlyIfStored ==
    [][\A u \in pending \ pending' :
            /\ last'.op = "update_write"
            /\ last'.id = u.id
            /\ last'.status \in {200, 500}
            /\ last'.status = 200 =>
                    /\ u.id \in DOMAIN db'
                    /\ last'.body = <<DrawingResponse(db'[u.id])>>
            /\ u.id \notin DOMAIN db =>
                    /\ last'.status = 500
                    /\ last'.body = <<>>
                    /\ db' = db]_vars

\* C15 witness: a Delete has removed a created record between the check and
\* the write of an Update of it; the Update has ended in 500 with no record
\* returned and the table has no row for the id.
C15_Witness ==
    /\ last.op = "update_write"
    /\ last.status = 500
    /\ last.body = <<>>
    /\ last.id \in Created
    /\ SelectById(db, last.id) = None

\* C16: when two Updates of one id that were in flight together, with no
\* field in both bodies, have both succeeded, one commit right after the
\* other, the row has the value of each body in each field that body carries.
C16_NoLostUpdate ==
    \A id \in RacedIds :
        LET a == raced[id].first[1]
            b == raced[id].last[1]
            rec == DrawingResponse(db[id])
        IN  (\A f \in PatchFields : a.drawing[f] = None \/ b.drawing[f] = None) =>
                \A f \in PatchFields :
                    /\ a.drawing[f] # None => rec[f] = a.drawing[f][1]
                    /\ b.drawing[f] # None => rec[f] = b.drawing[f][1]

\* C16 witness: an Update with only the name "" and an Update with only the
\* picture "", in flight together on a record created with the name "X", the
\* picture "img" and shapes, have both succeeded, the picture's last; the
\* record has the empty name, the empty picture and its shapes.
C16_Witness ==
    \E id \in RacedIds :
        LET a == raced[id].first[1]
            b == raced[id].last[1]
        IN  /\ a.drawing = DrawingUpdate(Some(""), None, None)
            /\ b.drawing = DrawingUpdate(None, Some(""), None)
            /\ db[id].name = ""
            /\ db[id].preview_image = ""
            /\ json_loads(db[id].canvas_state) = ShapesDoc

\* C17: a Get or a List leaves the table as it was; a Create, an Update
\* (its check and its write) or a Delete of an id, whatever its outcome,
\* leaves every row of another id as it was and neither adds nor removes a
\* row of another id.
C17_OtherRecordsUntouched ==
    [][/\ (Took("get") \/ Took("list")) => db' = db
       /\ \A id \in DOMAIN db \cup DOMAIN db' :
            id # last'.id =>
                /\ id \in DOMAIN db
                /\ id \in DOMAIN db'
                /\ db'[id] = db[id]
       /\ db' # db => last'.op \in {"create", "update_write", "delete"}]_vars

\* C17 witness: of two created records one has been deleted and the other
\* is stored as its Create returned it.
C17_Witness ==
    /\ last.op = "delete"
    /\ last.status = 200
    /\ last.id \in Created
    /\ last.id \notin DOMAIN db
    /\ \E id \in DOMAIN db :
            /\ id # last.id
            /\ createdAs[id] # None
            /\ DrawingResponse(db[id]) = createdAs[id][1]

=============================================================================
